---- MODULE Spec2Model ----
(***************************************************************************)
(* Model of the BeeGFS exporter (src/src/main.rs): the supervision loop of *)
(* BeeGfsExporter::run, the line parser and metric updates of              *)
(* process_events, and the Ctrl-C handler that run() installs.             *)
(*                                                                         *)
(* Two execution contexts are modelled: the main thread (position mpc)     *)
(* and the handler thread of the ctrlc crate (position hpc).  They share   *)
(* child_pid, an Option<u32> behind a Mutex.                               *)
(*                                                                         *)
(* Text is modelled as sequences of one-character strings.  The f64        *)
(* metric values are modelled as exact integers (all values of the model   *)
(* are far below 2^53, where f64 addition of integers is exact).           *)
(***************************************************************************)
EXTENDS Integers, Sequences, FiniteSets, TLC

\* ------------------------------------------------------------------ bounds

\* Largest restart ceiling (--restart-attemps) explored.
MaxLimit == 3
\* Largest number of lines the children write to their standard outputs,
\* all children of one run taken together.
MaxLines == 2
\* Process identifiers the operating system hands out: 1..MaxPid.
MaxPid == 2
\* Number of interrupt signals delivered during one run.
MaxInterrupts == 2
\* Iterations followed after error_count has wrapped around.
MaxWrapped == 1

\* The largest i32 (restart_attemps and error_count are i32).
I32Max == 2147483647

\* ------------------------------------------------------------- Option<T>

None == [some |-> FALSE, val |-> 0]
Some(x) == [some |-> TRUE, val |-> x]

Pids == 1..MaxPid
RestartLimits == (0 - 1)..MaxLimit

\* ---------------------------------------------------------- metric_re

IsSpace(c) == c \in {" ", "\t"}
IsDigit(c) == c \in {"0", "1", "2", "3", "4", "5", "6", "7", "8", "9"}

\* First index j >= i of s at which the run of characters of one class
\* (whitespace when sp, digits otherwise) that starts at i ends.
RECURSIVE RunEnd(_, _, _)
RunEnd(s, i, sp) ==
    IF i > Len(s) THEN i
    ELSE IF (sp /\ IsSpace(s[i])) \/ (~sp /\ IsDigit(s[i]))
         THEN RunEnd(s, i + 1, sp)
         ELSE i

NoMatch == [ok |-> FALSE, caps |-> << >>]

\* k further units "\s+([0-9]+)" matched greedily from index i.  The two
\* character classes are disjoint, so the greedy match is the only match.
RECURSIVE Groups(_, _, _)
Groups(s, i, k) ==
    IF k = 0 THEN [ok |-> TRUE, caps |-> << >>]
    ELSE LET w == RunEnd(s, i, TRUE)
             d == RunEnd(s, w, FALSE)
         IN  IF w = i \/ d = w THEN NoMatch
             ELSE LET rest == Groups(s, d, k - 1)
                  IN  IF rest.ok
                      THEN [ok |-> TRUE, caps |-> <<SubSeq(s, w, d - 1)>> \o rest.caps]
                      ELSE NoMatch

\* MatchAt that captures the leading integer too and drops the last one.
MatchAtKeepsFirst(s, i) ==
    LET all == Groups(s, i, 6)
    IN  IF all.ok THEN [ok |-> TRUE, caps |-> SubSeq(all.caps, 1, 5)] ELSE NoMatch

\* MatchAt for a pattern without the ignored leading integer.
MatchAtFiveFields(s, i) == Groups(s, i, 5)

\* The pattern anchored at index i: \s+[0-9]+ and then five captured units.
MatchAt(s, i) ==
    LET all == Groups(s, i, 6)
    IN  IF all.ok THEN [ok |-> TRUE, caps |-> Tail(all.caps)] ELSE NoMatch

\* The match at the first index >= i at which the pattern matches.
RECURSIVE FirstMatch(_, _)
FirstMatch(s, i) ==
    IF i > Len(s) THEN NoMatch
    ELSE LET r == MatchAt(s, i)
         IN  IF r.ok THEN r ELSE FirstMatch(s, i + 1)

\* Regex::captures: the leftmost match of the unanchored pattern.
Captures(s) == FirstMatch(s, 1)

DigitVal(c) ==
    CASE c = "0" -> 0 [] c = "1" -> 1 [] c = "2" -> 2 [] c = "3" -> 3
      [] c = "4" -> 4 [] c = "5" -> 5 [] c = "6" -> 6 [] c = "7" -> 7
      [] c = "8" -> 8 [] c = "9" -> 9

\* str::parse::<f64> on a string of decimal digits.
RECURSIVE ParseF64(_)
ParseF64(ds) ==
    IF ds = << >> THEN 0
    ELSE 10 * ParseF64(SubSeq(ds, 1, Len(ds) - 1)) + DigitVal(ds[Len(ds)])


\* ------------------------------------------------- the child's output

\* "  3 1 2 3 0 1": node 3, write 1, read 2, requests 3, queue 0, busy 1.
LineA == <<" ", " ", "3", " ", "1", " ", "2", " ", "3", " ", "0", " ", "1">>
\* "\t1 12  0 1 4 2": node 1, write 12, read 0, requests 1, queue 4, busy 2.
LineB == <<"\t", "1", " ", "1", "2", " ", " ", "0", " ", "1", " ", "4", " ", "2">>
\* A header line, which the pattern does not match.
LineHeader == <<"n", "o", "d", "e", " ", "1">>

ChildLines == {LineA, LineB, LineHeader}

\* ------------------------------------------------------------- state

VARIABLES
    restart_attemps,  \* cli.restart_attemps (i32)
    config_file,      \* cli.config_file.is_some()
    child_lines,      \* the lines a child can write to its standard output
    mpc,              \* position of the main thread in run()
    error_count,      \* local error_count of run()
    child,            \* the Child handle run() owns: Some(pid) from spawn to wait()
    run_result,       \* what run() returned: "none" while it has not returned
    child_pid,        \* the shared Option<u32>: [some, val]
    holders,          \* contexts that hold the Mutex around child_pid
    hpc,              \* position of the Ctrl-C handler
    hv,               \* the handler's view *v of child_pid
    interrupts,       \* interrupt signals delivered so far
    sigterm,          \* Some(pid) once kill(pid, SIGTERM) was called
    exit_code,        \* Some(status) once the process has exited
    write_kib, read_kib, requests,   \* counters
    queue_len, busy,                 \* gauges
    \* history of the run, read only by the properties
    attempts,         \* calls of start_monitoring
    spawned,          \* some call of start_monitoring launched a child
    cfg_found,        \* some call of start_monitoring found the config file
    end_kind,         \* how the latest iteration ended, until the next one begins
    lines_total,      \* lines read from all children so far
    lines_read,       \* lines the current process_events call has read
    start_vals,       \* metric values when the current process_events call began
    inc_calls,        \* inc_by calls of the current process_events call
    set_calls,        \* set calls of the current process_events call
    prev_val,         \* child_pid before the store of run() in progress began
    next_val          \* the value the latest store of run() writes

metrics == <<write_kib, read_kib, requests, queue_len, busy>>
sinklog == <<lines_total, lines_read, start_vals, inc_calls, set_calls>>
mainvars == <<mpc, error_count, child, run_result>>
handlervars == <<hpc, hv, interrupts, sigterm>>
history == <<attempts, spawned, cfg_found, end_kind>>
writelog == <<prev_val, next_val>>
cli == <<restart_attemps, config_file>>

vars == <<cli, child_lines, mainvars, child_pid, holders, handlervars, exit_code, metrics,
          history, sinklog, writelog>>

MetricVals == [write_kib |-> write_kib, read_kib |-> read_kib, requests |-> requests,
               queue_len |-> queue_len, busy |-> busy]
ZeroVals == [write_kib |-> 0, read_kib |-> 0, requests |-> 0, queue_len |-> 0, busy |-> 0]

Running == ~exit_code.some

\* The state in which run() enters its loop, the handler installed.
AtLoopEntry ==
    /\ mpc = "spawn"
    /\ error_count = 0
    /\ child = None
    /\ run_result = "none"
    /\ child_pid = None
    /\ holders = {}
    /\ hpc = "idle"
    /\ hv = None
    /\ interrupts = 0
    /\ sigterm = None
    /\ exit_code = None
    /\ write_kib = 0 /\ read_kib = 0 /\ requests = 0
    /\ queue_len = 0 /\ busy = 0
    /\ attempts = 0
    /\ spawned = FALSE
    /\ cfg_found = FALSE
    /\ end_kind = "none"
    /\ lines_total = 0
    /\ lines_read = << >>
    /\ start_vals = ZeroVals
    /\ inc_calls = 0
    /\ set_calls = 0
    /\ prev_val = None
    /\ next_val = None

Init ==
    /\ restart_attemps \in RestartLimits
    /\ config_file \in BOOLEAN
    /\ child_lines = ChildLines
    /\ AtLoopEntry

\* ------------------------------------------------ start_monitoring

\* StartMonitoring without the is_file check of lines 97-99.
StartMonitoringUnchecked(cfg, is_file, os_ok, pid) ==
    IF ~os_ok THEN [ok |-> FALSE, id |-> 0]
    ELSE [ok |-> TRUE, id |-> pid]

\* start_monitoring as a function of what it finds: whether a config file is
\* configured, whether that path is a file, whether the operating system can
\* launch the command, and the process identifier the new child then gets.
\* With ok the command was launched and id is the child's process identifier.
StartMonitoring(cfg, is_file, os_ok, pid) ==
    IF cfg /\ ~is_file THEN [ok |-> FALSE, id |-> 0]
    ELSE IF ~os_ok THEN [ok |-> FALSE, id |-> 0]
    ELSE [ok |-> TRUE, id |-> pid]

\* What every call of start_monitoring leaves behind in the run's history.
Attempted(is_file, r) ==
    /\ attempts' = IF attempts < I32Max THEN attempts + 1 ELSE attempts
    /\ cfg_found' = (cfg_found \/ (config_file /\ is_file))
    /\ spawned' = (spawned \/ r.ok)

\* run(), line 178 with the Ok arm: a child was spawned.
SpawnOk ==
    /\ Running /\ mpc = "spawn"
    /\ \E is_file \in BOOLEAN, pid \in Pids :
          LET r == StartMonitoring(config_file, is_file, TRUE, pid)
          IN  /\ r.ok
              /\ child' = Some(r.id)
              /\ mpc' = "lock"
              /\ Attempted(is_file, r)
    /\ UNCHANGED <<cli, child_lines, error_count, run_result, child_pid, holders, handlervars,
                   exit_code, metrics, end_kind, sinklog, writelog>>

\* SpawnFail with the error returned from run() (as start_monitoring()? would).
SpawnFailPropagates ==
    /\ Running /\ mpc = "spawn"
    /\ \E is_file \in BOOLEAN, os_ok \in BOOLEAN :
          LET r == StartMonitoring(config_file, is_file, os_ok, 1)
          IN  /\ ~r.ok
              /\ Attempted(is_file, r)
    /\ mpc' = "returned"
    /\ run_result' = "spawn_error"
    /\ end_kind' = "spawn_failure"
    /\ UNCHANGED <<cli, child_lines, error_count, child, child_pid, holders,
                   handlervars, exit_code, metrics, sinklog, writelog>>

\* run(), line 178 with the Err arm (lines 188-190): the error is logged.
SpawnFail ==
    /\ Running /\ mpc = "spawn"
    /\ \E is_file \in BOOLEAN, os_ok \in BOOLEAN :
          LET r == StartMonitoring(config_file, is_file, os_ok, 1)
          IN  /\ ~r.ok
              /\ Attempted(is_file, r)
    /\ mpc' = "count"
    /\ end_kind' = "spawn_failure"
    /\ UNCHANGED <<cli, child_lines, error_count, child, run_result, child_pid, holders,
                   handlervars, exit_code, metrics, sinklog, writelog>>

\* ------------------------------------- run(): storing the child's pid

\* LockChildPid without waiting for the Mutex (the store made unguarded).
LockChildPidNoWait ==
    /\ Running /\ mpc = "lock"
    /\ holders' = holders \cup {"main"}
    /\ mpc' = "store_tag"
    /\ prev_val' = child_pid
    /\ next_val' = Some(child.val)
    /\ UNCHANGED <<cli, child_lines, error_count, child, run_result, child_pid, handlervars,
                   exit_code, metrics, history, sinklog>>

\* Line 180: self.child_pid.lock().  The Mutex is never poisoned (no context
\* panics while holding it), so lock() blocks until the Mutex is free and then
\* returns Ok.
LockChildPid ==
    /\ Running /\ mpc = "lock"
    /\ holders = {}
    /\ holders' = holders \cup {"main"}
    /\ mpc' = "store_tag"
    /\ prev_val' = child_pid
    /\ next_val' = Some(child.val)
    /\ UNCHANGED <<cli, child_lines, error_count, child, run_result, child_pid, handlervars,
                   exit_code, metrics, history, sinklog>>

\* Line 181: *v = Some(child.id()).  An Option<u32> is two words, a
\* discriminant and a payload, and the assignment is a plain store: it is
\* modelled as the two writes it consists of.
StoreTag ==
    /\ Running /\ mpc = "store_tag"
    /\ child_pid' = [child_pid EXCEPT !.some = TRUE]
    /\ mpc' = "store_val"
    /\ UNCHANGED <<cli, child_lines, error_count, child, run_result, holders, handlervars,
                   exit_code, metrics, history, sinklog, writelog>>

\* StoreVal that leaves the payload as it was.
StoreValSkipped ==
    /\ Running /\ mpc = "store_val"
    /\ mpc' = "unlock"
    /\ UNCHANGED <<cli, child_lines, error_count, child, run_result, child_pid, holders,
                   handlervars, exit_code, metrics, history, sinklog, writelog>>

\* Line 181, the payload.
StoreVal ==
    /\ Running /\ mpc = "store_val"
    /\ child_pid' = [child_pid EXCEPT !.val = child.val]
    /\ mpc' = "unlock"
    /\ UNCHANGED <<cli, child_lines, error_count, child, run_result, holders, handlervars,
                   exit_code, metrics, history, sinklog, writelog>>

\* Line 182: the guard goes out of scope; process_events is entered.
UnlockChildPid ==
    /\ Running /\ mpc = "unlock"
    /\ holders' = holders \ {"main"}
    /\ mpc' = "stream"
    /\ lines_read' = << >>
    /\ start_vals' = MetricVals
    /\ inc_calls' = 0
    /\ set_calls' = 0
    /\ prev_val' = child_pid
    /\ UNCHANGED <<cli, child_lines, error_count, child, run_result, child_pid, handlervars,
                   exit_code, metrics, history, lines_total, next_val>>

\* ------------------------------------------------- process_events

\* IncBy that overwrites and SetTo that accumulates (inc_by and set swapped).
IncByOverwrites(counter, v) == v
SetToAccumulates(gauge, v) == gauge + v

\* GenericCounter::inc_by and GenericGauge::set.
IncBy(counter, v) == counter + v
SetTo(gauge, v) == v

\* Lines 124-144: one line that was read without an error.
OnLine(content) ==
    LET captures == Captures(content)
    IN  IF captures.ok
        THEN /\ write_kib' = IncBy(write_kib, ParseF64(captures.caps[1]))
             /\ read_kib' = IncBy(read_kib, ParseF64(captures.caps[2]))
             /\ requests' = IncBy(requests, ParseF64(captures.caps[3]))
             /\ queue_len' = SetTo(queue_len, ParseF64(captures.caps[4]))
             /\ busy' = SetTo(busy, ParseF64(captures.caps[5]))
             /\ inc_calls' = inc_calls + 3
             /\ set_calls' = set_calls + 2
        ELSE UNCHANGED <<metrics, inc_calls, set_calls>>

\* Lines 120-145: reader.lines() yields Ok(content).
ReadLine ==
    /\ Running /\ mpc = "stream"
    /\ lines_total < MaxLines
    /\ \E content \in child_lines :
          /\ OnLine(content)
          /\ lines_read' = Append(lines_read, content)
          /\ lines_total' = lines_total + 1
    /\ UNCHANGED <<cli, child_lines, mainvars, child_pid, holders, handlervars, exit_code,
                   history, start_vals, writelog>>

\* ReadError with continue for break: the loop goes on reading.
ReadErrorContinues ==
    /\ Running /\ mpc = "stream"
    /\ mpc' = "stream"
    /\ end_kind' = "read_error"
    /\ UNCHANGED <<cli, child_lines, error_count, child, run_result, child_pid, holders,
                   handlervars, exit_code, metrics, attempts, spawned, cfg_found,
                   sinklog, writelog>>

\* Lines 146-149: reader.lines() yields Err: break, and Ok(()) is returned.
ReadError ==
    /\ Running /\ mpc = "stream"
    /\ mpc' = "wait"
    /\ end_kind' = "read_error"
    /\ UNCHANGED <<cli, child_lines, error_count, child, run_result, child_pid, holders,
                   handlervars, exit_code, metrics, attempts, spawned, cfg_found,
                   sinklog, writelog>>

\* Line 120: reader.lines() ends, the child closed its output.
ReadEof ==
    /\ Running /\ mpc = "stream"
    /\ mpc' = "wait"
    /\ end_kind' = "clean_exit"
    /\ UNCHANGED <<cli, child_lines, error_count, child, run_result, child_pid, holders,
                   handlervars, exit_code, metrics, attempts, spawned, cfg_found,
                   sinklog, writelog>>

\* ---------------------------------------------- run(): end of iteration

\* Wait that does not reap (the child handle is dropped without wait()).
WaitNoReap ==
    /\ Running /\ mpc = "wait"
    /\ mpc' = "count"
    /\ lines_read' = << >>
    /\ start_vals' = ZeroVals
    /\ inc_calls' = 0
    /\ set_calls' = 0
    /\ UNCHANGED <<cli, child_lines, error_count, child, run_result, child_pid, holders,
                   handlervars, exit_code, metrics, history, lines_total, writelog>>

\* Line 186: child.wait() reaps the child.
Wait ==
    /\ Running /\ mpc = "wait"
    /\ child' = None
    /\ mpc' = "count"
    /\ lines_read' = << >>
    /\ start_vals' = ZeroVals
    /\ inc_calls' = 0
    /\ set_calls' = 0
    /\ UNCHANGED <<cli, child_lines, error_count, run_result, child_pid, holders, handlervars,
                   exit_code, metrics, history, lines_total, writelog>>

\* Count that continues the loop without the sleep of line 202.
CountNoBackoff ==
    /\ Running /\ mpc = "count"
    /\ error_count' = error_count + 1
    /\ IF error_count' > restart_attemps
       THEN run_result' = "giving_up" /\ mpc' = "returned"
       ELSE run_result' = run_result /\ mpc' = "spawn"
    /\ UNCHANGED <<cli, child_lines, child, child_pid, holders, handlervars, exit_code, metrics,
                   history, sinklog, writelog>>

\* Count that gives up one crash later (the ceiling taken as one more).
CountOneTooMany ==
    /\ Running /\ mpc = "count"
    /\ error_count' = error_count + 1
    /\ IF error_count' > restart_attemps + 1
       THEN run_result' = "giving_up" /\ mpc' = "returned"
       ELSE run_result' = run_result /\ mpc' = "sleep"
    /\ UNCHANGED <<cli, child_lines, child, child_pid, holders, handlervars, exit_code, metrics,
                   history, sinklog, writelog>>

\* Count with the comparison off by one (>= for >).
CountOffByOne ==
    /\ Running /\ mpc = "count"
    /\ error_count' = error_count + 1
    /\ IF error_count' >= restart_attemps
       THEN run_result' = "giving_up" /\ mpc' = "returned"
       ELSE run_result' = run_result /\ mpc' = "sleep"
    /\ UNCHANGED <<cli, child_lines, child, child_pid, holders, handlervars, exit_code, metrics,
                   history, sinklog, writelog>>

\* n += 1 on an i32.  At the largest i32 the addition overflows: a build with
\* overflow checks (the debug profile) panics, a build without them (the
\* release profile) wraps around to the smallest i32.
AddOne(n) ==
    IF n < I32Max
    THEN {[panic |-> FALSE, val |-> n + 1]}
    ELSE {[panic |-> TRUE, val |-> n], [panic |-> FALSE, val |-> 0 - I32Max - 1]}

\* Lines 193-200: error_count += 1 and the comparison with the ceiling.  A
\* panic unwinds out of run() and main().
Count ==
    /\ Running /\ mpc = "count"
    /\ error_count >= 0 \/ error_count < MaxWrapped - I32Max - 1
    /\ \E r \in AddOne(error_count) :
          /\ error_count' = r.val
          /\ IF r.panic
             THEN run_result' = "panic" /\ mpc' = "returned"
             ELSE IF r.val > restart_attemps
             THEN run_result' = "giving_up" /\ mpc' = "returned"
             ELSE run_result' = run_result /\ mpc' = "sleep"
    /\ UNCHANGED <<cli, child_lines, child, child_pid, holders, handlervars, exit_code, metrics,
                   history, sinklog, writelog>>

\* Sleep after which the gauges are set back to zero.
SleepResetsGauges ==
    /\ Running /\ mpc = "sleep"
    /\ mpc' = "spawn"
    /\ end_kind' = "none"
    /\ queue_len' = 0
    /\ busy' = 0
    /\ UNCHANGED <<cli, child_lines, error_count, child, run_result, child_pid, holders,
                   handlervars, exit_code, write_kib, read_kib, requests, attempts, spawned,
                   cfg_found, sinklog, writelog>>

\* Line 202: sleep(Duration::from_secs(1)).
Sleep ==
    /\ Running /\ mpc = "sleep"
    /\ mpc' = "spawn"
    /\ end_kind' = "none"
    /\ UNCHANGED <<cli, child_lines, error_count, child, run_result, child_pid, holders,
                   handlervars, exit_code, metrics, attempts, spawned, cfg_found,
                   sinklog, writelog>>

\* main(), lines 210-212: run()? returns the error from main and the process
\* exits with status 1; Ok(()) would exit with status 0, a panic of the main
\* thread exits with status 101.
MainReturn ==
    /\ Running /\ mpc = "returned"
    /\ mpc' = "done"
    /\ exit_code' = Some(IF run_result = "ok" THEN 0
                         ELSE IF run_result = "panic" THEN 101 ELSE 1)
    /\ UNCHANGED <<cli, child_lines, error_count, child, run_result, child_pid, holders,
                   handlervars, metrics, history, sinklog, writelog>>

\* ------------------------------------------------- the Ctrl-C handler

\* An interrupt signal arrives; the ctrlc thread calls the closure.  The
\* thread runs one call at a time.
Interrupt ==
    /\ Running /\ hpc = "idle"
    /\ interrupts < MaxInterrupts
    /\ interrupts' = interrupts + 1
    /\ hpc' = "lock"
    /\ UNCHANGED <<cli, child_lines, mainvars, child_pid, holders, hv, sigterm, exit_code,
                   metrics, history, sinklog, writelog>>

\* Line 164: pmut.lock().
HandlerLock ==
    /\ Running /\ hpc = "lock"
    /\ holders = {}
    /\ holders' = holders \cup {"handler"}
    /\ hpc' = "read"
    /\ UNCHANGED <<cli, child_lines, mainvars, child_pid, hv, interrupts, sigterm, exit_code,
                   metrics, history, sinklog, writelog>>

\* HandlerRead with exit(1) placed after the if let instead of inside it.
HandlerReadAlwaysExits ==
    /\ Running /\ hpc = "read"
    /\ hv' = child_pid
    /\ hpc' = IF child_pid.some THEN "kill" ELSE "exit"
    /\ UNCHANGED <<cli, child_lines, mainvars, child_pid, holders, interrupts, sigterm,
                   exit_code, metrics, history, sinklog, writelog>>

\* HandlerRead whose None case returns with the guard still held.
HandlerReadKeepsLock ==
    /\ Running /\ hpc = "read"
    /\ hv' = child_pid
    /\ hpc' = IF child_pid.some THEN "kill" ELSE "idle"
    /\ UNCHANGED <<cli, child_lines, mainvars, child_pid, holders, interrupts, sigterm,
                   exit_code, metrics, history, sinklog, writelog>>

\* Line 166: if let Some(pid) = *v; with None the closure ends and the guard
\* is dropped (lines 171-172).
HandlerRead ==
    /\ Running /\ hpc = "read"
    /\ hv' = child_pid
    /\ IF child_pid.some
       THEN hpc' = "kill" /\ holders' = holders
       ELSE hpc' = "idle" /\ holders' = holders \ {"handler"}
    /\ UNCHANGED <<cli, child_lines, mainvars, child_pid, interrupts, sigterm, exit_code,
                   metrics, history, sinklog, writelog>>

\* HandlerKill with the exit taken before the signal is sent.
HandlerKillExitsFirst ==
    /\ Running /\ hpc = "kill"
    /\ exit_code' = Some(1)
    /\ hpc' = "exited"
    /\ UNCHANGED <<cli, child_lines, mainvars, child_pid, holders, hv, interrupts, sigterm,
                   metrics, history, sinklog, writelog>>

\* Line 168: kill(pid as i32, SIGTERM).
HandlerKill ==
    /\ Running /\ hpc = "kill"
    /\ sigterm' = Some(hv.val)
    /\ hpc' = "exit"
    /\ UNCHANGED <<cli, child_lines, mainvars, child_pid, holders, hv, interrupts, exit_code,
                   metrics, history, sinklog, writelog>>

\* Line 170: std::process::exit(1).
HandlerExit ==
    /\ Running /\ hpc = "exit"
    /\ exit_code' = Some(1)
    /\ hpc' = "exited"
    /\ UNCHANGED <<cli, child_lines, mainvars, child_pid, holders, hv, interrupts, sigterm,
                   metrics, history, sinklog, writelog>>

\* ---------------------------------------------------- specification

Next ==
    \/ SpawnOk \/ SpawnFail
    \/ LockChildPid \/ StoreTag \/ StoreVal \/ UnlockChildPid
    \/ ReadLine \/ ReadError \/ ReadEof
    \/ Wait \/ Count \/ Sleep \/ MainReturn
    \/ Interrupt \/ HandlerLock \/ HandlerRead \/ HandlerKill \/ HandlerExit

Spec == Init /\ [][Next]_vars

\* The steps of the main thread and of the ctrlc thread.
MainStep ==
    \/ SpawnOk \/ SpawnFail
    \/ LockChildPid \/ StoreTag \/ StoreVal \/ UnlockChildPid
    \/ ReadLine \/ ReadError \/ ReadEof
    \/ Wait \/ Count \/ Sleep \/ MainReturn

HandlerStep == HandlerLock \/ HandlerRead \/ HandlerKill \/ HandlerExit

\* Both threads are scheduled by the operating system: a thread that can take
\* a step eventually takes one.  For the main thread at process_events this
\* says that the read returns: the child eventually writes a line, fails or
\* closes its output.
FairSpec == Spec /\ WF_vars(MainStep) /\ WF_vars(HandlerStep)

\* ------------------------------------------- run() after a long time

\* run() with the largest ceiling, at the top of the loop after I32Max - 1
\* iterations in which start_monitoring failed every time (no child was ever
\* spawned, so child_pid is still None and the metrics are still zero).
InitLongRun ==
    /\ restart_attemps = I32Max
    /\ config_file \in BOOLEAN
    /\ child_lines = ChildLines
    /\ mpc = "spawn"
    /\ error_count = I32Max - 1
    /\ attempts = I32Max - 1
    /\ child = None
    /\ run_result = "none"
    /\ child_pid = None
    /\ holders = {}
    /\ hpc = "idle"
    /\ hv = None
    /\ interrupts = 0
    /\ sigterm = None
    /\ exit_code = None
    /\ write_kib = 0 /\ read_kib = 0 /\ requests = 0 /\ queue_len = 0 /\ busy = 0
    /\ spawned = FALSE
    /\ cfg_found = FALSE
    /\ end_kind = "none"
    /\ lines_total = 0
    /\ lines_read = << >>
    /\ start_vals = ZeroVals
    /\ inc_calls = 0
    /\ set_calls = 0
    /\ prev_val = None
    /\ next_val = None

SpecLongRun == InitLongRun /\ [][Next]_vars

\* ------------------------------------- the extractor on its own inputs

\* Tokens and whitespace of which the lines fed to the extractor are made.
TokZero == <<"0">>
TokFortyTwo == <<"4", "2">>
TokWord == <<"i", "d">>
TokMixed == <<"7", "x">>
IntTokens == {TokZero, TokFortyTwo}

\* Six integers; fewer than six; and lines with other tokens around integers.
SixIntegers == [1..6 -> IntTokens]
FewerIntegers == UNION {[1..k -> {TokFortyTwo}] : k \in 0..5}
OtherTokens ==
    {<<TokWord>>, <<TokWord, TokWord>>,
     <<TokZero, TokFortyTwo, TokZero, TokFortyTwo, TokZero, TokFortyTwo, TokZero>>,
     <<TokWord, TokZero, TokFortyTwo, TokZero, TokFortyTwo, TokZero, TokFortyTwo>>,
     <<TokZero, TokFortyTwo, TokZero, TokFortyTwo, TokZero, TokMixed>>,
     <<TokFortyTwo, TokZero, TokZero, TokFortyTwo>>}
TokenSeqs == SixIntegers \cup FewerIntegers \cup OtherTokens

Leads == {<< >>, <<" ">>, <<"\t", " ">>}
Seps == {<<" ">>, <<" ", "\t">>}
Trails == {<< >>, <<" ">>}

\* The tokens ts separated by sep.
RECURSIVE JoinTokens(_, _)
JoinTokens(ts, sep) ==
    IF ts = << >> THEN << >>
    ELSE IF Len(ts) = 1 THEN ts[1]
    ELSE ts[1] \o sep \o JoinTokens(Tail(ts), sep)

ExtractLines ==
    {lead \o JoinTokens(ts, sep) \o trail :
        lead \in Leads, ts \in TokenSeqs, sep \in Seps, trail \in Trails}

\* process_events is reading the output of the first child, which repeats
\* one line of ExtractLines; the ceiling is 0 and no interrupt arrives.
InitExtract ==
    /\ restart_attemps = 0
    /\ config_file = FALSE
    /\ child_lines \in {{l} : l \in ExtractLines}
    /\ mpc = "stream"
    /\ error_count = 0
    /\ child = Some(1)
    /\ run_result = "none"
    /\ child_pid = Some(1)
    /\ holders = {}
    /\ hpc = "idle"
    /\ hv = None
    /\ interrupts = 0
    /\ sigterm = None
    /\ exit_code = None
    /\ write_kib = 0 /\ read_kib = 0 /\ requests = 0
    /\ queue_len = 0 /\ busy = 0
    /\ attempts = 1
    /\ spawned = TRUE
    /\ cfg_found = FALSE
    /\ end_kind = "none"
    /\ lines_total = 0
    /\ lines_read = << >>
    /\ start_vals = ZeroVals
    /\ inc_calls = 0
    /\ set_calls = 0
    /\ prev_val = Some(1)
    /\ next_val = Some(1)

NextExtract ==
    \/ ReadLine \/ ReadError \/ ReadEof
    \/ Wait \/ Count \/ MainReturn

SpecExtract == InitExtract /\ [][NextExtract]_vars

\* ========================================================== properties

Max(a, b) == IF a >= b THEN a ELSE b

\* Positions of run() inside one loop iteration, after start_monitoring was
\* called and before error_count is incremented.
InIteration ==
    mpc \in {"lock", "store_tag", "store_val", "unlock", "stream", "wait", "count"}

\* A step of the handler from position p.
HandlerStepFrom(p) == hpc = p /\ hpc' # p

\* C1: error_count grows by exactly 1 per loop iteration, however the
\* iteration ended (it equals the number of start_monitoring calls once the
\* iteration is counted, and one less inside the iteration), and run() gives up
\* in the first iteration that leaves error_count > restart_attemps, never
\* earlier: after the first crash with ceiling 0, after the fourth with
\* ceiling 3.
C1_CrashCount ==
    /\ error_count = IF InIteration THEN attempts - 1 ELSE attempts
    /\ (mpc = "count" => end_kind \in {"spawn_failure", "read_error", "clean_exit"})
    /\ (run_result = "giving_up" <=> mpc \in {"returned", "done"})
    /\ (run_result = "giving_up" =>
            /\ error_count > restart_attemps
            /\ (error_count = 1 \/ error_count - 1 <= restart_attemps)
            /\ (restart_attemps = 0 => error_count = 1)
            /\ (restart_attemps = 3 => error_count = 4))
    /\ (mpc = "sleep" => error_count <= restart_attemps)
    /\ (mpc # "spawn" /\ run_result = "none" => error_count <= Max(restart_attemps, 0))

C1_Witness ==
    /\ run_result = "giving_up"
    /\ restart_attemps = 3
    /\ error_count = 4
    /\ end_kind = "read_error"

\* C2: the program ends only by the restart-ceiling failure, reached only with
\* error_count > restart_attemps, or by the exit of the interrupt handler;
\* run() returns nothing but the giving-up error, and no state other than an
\* exited process is without a next step.
C2_TerminalStates ==
    /\ run_result \in {"none", "giving_up"}
    /\ (mpc \in {"returned", "done"} =>
            run_result = "giving_up" /\ error_count > restart_attemps)
    /\ (exit_code.some =>
            \/ mpc = "done" /\ run_result = "giving_up" /\ error_count > restart_attemps
            \/ hpc = "exited")
    /\ (~(ENABLED Next) => exit_code.some)

C2_Witness ==
    /\ exit_code = Some(1)
    /\ mpc = "done"
    /\ restart_attemps = 1
    /\ error_count = 2
    /\ end_kind = "spawn_failure"
    /\ spawned

\* C3: with a config file configured that no call of start_monitoring finds,
\* no child is ever launched, child_pid stays None, every attempt is counted
\* as one crash, and the program can end only with the restart-ceiling
\* failure.
C3_MissingConfig ==
    (config_file /\ ~cfg_found) =>
        /\ ~spawned
        /\ child = None
        /\ child_pid = None
        /\ sigterm = None
        /\ mpc \in {"spawn", "count", "sleep", "returned", "done"}
        /\ error_count = IF mpc = "count" THEN attempts - 1 ELSE attempts
        /\ (mpc = "count" => end_kind = "spawn_failure")
        /\ (exit_code.some => mpc = "done" /\ run_result = "giving_up")
        /\ (~(ENABLED Next) => mpc = "done" /\ run_result = "giving_up")

C3_Witness ==
    /\ config_file /\ ~cfg_found
    /\ exit_code = Some(1)
    /\ run_result = "giving_up"
    /\ restart_attemps = 2
    /\ attempts = 3

\* C4: a handler call that finds a child tracked in child_pid goes on to send
\* SIGTERM to exactly that process identifier and then to exit the process
\* with status 1: the signal is sent by a step of its own before the exit,
\* while the process still runs, and once the process has exited run() calls
\* start_monitoring no more.  (The steps are those of a handler that is not
\* cut short by run() returning its error, which ends the process as well.)
C4_InterruptKillsTracked ==
    /\ [](/\ (hpc \in {"kill", "exit", "exited"} => hv.some /\ hv = child_pid)
          /\ (hpc = "kill" => ~sigterm.some)
          /\ (hpc \in {"exit", "exited"} => sigterm = Some(child_pid.val))
          /\ (hpc = "exited" => exit_code = Some(1))
          /\ (sigterm.some => hpc \in {"exit", "exited"}))
    /\ [][/\ (HandlerStepFrom("read") /\ child_pid.some => hpc' = "kill")
          /\ (HandlerStepFrom("kill") =>
                 hpc' = "exit" /\ sigterm' = Some(child_pid.val) /\ exit_code' = None)
          /\ (HandlerStepFrom("exit") => hpc' = "exited" /\ exit_code' = Some(1))
          /\ (exit_code.some => attempts' = attempts /\ mpc' = mpc /\ child' = child)
         ]_vars

C4_Witness ==
    /\ hpc = "exited"
    /\ exit_code = Some(1)
    /\ child.some
    /\ child_pid = child
    /\ sigterm = child
    /\ mpc = "stream"

\* C5: a handler call that reads child_pid while run() owns a live child
\* (spawned, not yet reaped) goes on to send SIGTERM to that child's process
\* identifier.
C5_LiveChildSignalled ==
    [][HandlerStepFrom("read") /\ child.some => hpc' = "kill" /\ child_pid = child]_vars

\* C6: between spawns (the previous child reaped or never launched, the next
\* one not yet spawned, the backoff sleep included) child_pid is None, so a
\* handler call in that window sends no signal.
C6_NoneBetweenSpawns ==
    (mpc \in {"count", "sleep", "spawn"} /\ ~child.some) =>
        /\ ~child_pid.some
        /\ hpc \notin {"kill", "exit"}

\* C7: a handler call that finds child_pid None sends no signal, does not
\* exit the process, releases the Mutex and changes neither child_pid nor
\* error_count nor any metric nor the position of run().
C7_HandlerNoop ==
    [][/\ (HandlerStepFrom("read") /\ ~child_pid.some =>
              /\ hpc' = "idle"
              /\ "handler" \notin holders'
              /\ UNCHANGED <<sigterm, exit_code, child_pid, mainvars, metrics>>)
       /\ (HandlerStepFrom("lock") =>
              UNCHANGED <<sigterm, exit_code, child_pid, mainvars, metrics>>)
      ]_vars

C7_Witness ==
    /\ interrupts >= 1
    /\ hpc = "idle"
    /\ ~hv.some
    /\ Running
    /\ ~sigterm.some
    /\ mpc = "stream"
    /\ lines_read # << >>

\* C8: child_pid is written by run() only while run() holds the Mutex and read
\* by the handler only while the handler holds it, the two never hold it
\* together, and what the handler reads is the value child_pid had before the
\* store of run() or the value that store writes.
C8_MutexGuardsChildPid ==
    /\ [](Cardinality(holders) <= 1)
    /\ [][/\ (child_pid' # child_pid => holders = {"main"} /\ holders' = {"main"})
          /\ (HandlerStepFrom("read") =>
                 /\ holders = {"handler"}
                 /\ hv' = child_pid
                 /\ hv' \in {prev_val, next_val})
         ]_vars

\* The handler waits for the Mutex while the store of run() is half done.
C8_Witness ==
    /\ mpc = "store_val"
    /\ hpc = "lock"
    /\ holders = {"main"}
    /\ child_pid \notin {prev_val, next_val}

\* The five numbers of each line of ls that the pattern matches, in order.
RECURSIVE Matched(_)
Matched(ls) ==
    IF ls = << >> THEN << >>
    ELSE LET c == Captures(Head(ls))
         IN  (IF c.ok THEN <<[k \in 1..5 |-> ParseF64(c.caps[k])]>> ELSE << >>)
                 \o Matched(Tail(ls))

\* Sum of field k over the samples m.
RECURSIVE SumField(_, _)
SumField(m, k) ==
    IF m = << >> THEN 0 ELSE Head(m)[k] + SumField(Tail(m), k)

\* Field k of the last sample of m, or dflt when m is empty.
LastField(m, k, dflt) ==
    IF m = << >> THEN dflt ELSE m[Len(m)][k]

\* C9: while and after process_events reads the N lines lines_read of one
\* child, of which M match, it has made 3*M inc_by and 2*M set calls, each
\* counter is its value at entry (zero for a fresh process) plus the sum of
\* its field over the matched lines, and each gauge is the field of the last
\* matched line (its value at entry when no line matched).
C9_SumAndLast ==
    mpc \in {"stream", "wait"} =>
        LET m == Matched(lines_read)
        IN  /\ inc_calls = 3 * Len(m)
            /\ set_calls = 2 * Len(m)
            /\ write_kib = start_vals.write_kib + SumField(m, 1)
            /\ read_kib = start_vals.read_kib + SumField(m, 2)
            /\ requests = start_vals.requests + SumField(m, 3)
            /\ queue_len = LastField(m, 4, start_vals.queue_len)
            /\ busy = LastField(m, 5, start_vals.busy)

C9_Witness ==
    /\ mpc = "wait"
    /\ start_vals = ZeroVals
    /\ lines_read = <<LineHeader, LineB>>
    /\ inc_calls = 3 /\ set_calls = 2
    /\ write_kib = 12 /\ read_kib = 0 /\ requests = 1
    /\ queue_len = 4 /\ busy = 2

\* C10: no step of the program (a line, a child termination, a respawn, an
\* interrupt) decreases the value of any of the three counters.
C10_CountersMonotonic ==
    [][/\ write_kib' >= write_kib
       /\ read_kib' >= read_kib
       /\ requests' >= requests]_vars

\* A counter grew under a second child, after an interrupt was handled.
C10_Witness ==
    /\ mpc = "stream"
    /\ error_count >= 1
    /\ interrupts >= 1
    /\ start_vals.write_kib > 0
    /\ write_kib > start_vals.write_kib

\* The whitespace-separated tokens of the line s (cur is the token being read).
RECURSIVE Split(_, _, _)
Split(s, cur, acc) ==
    LET done == IF cur = << >> THEN acc ELSE Append(acc, cur)
    IN  IF s = << >> THEN done
        ELSE IF IsSpace(Head(s)) THEN Split(Tail(s), << >>, done)
        ELSE Split(Tail(s), Append(cur, Head(s)), acc)

Tokens(s) == Split(s, << >>, << >>)

IsInteger(t) == t # << >> /\ \A i \in 1..Len(t) : IsDigit(t[i])

\* The number a token of decimal digits denotes, read from the left.
RECURSIVE Decimal(_, _)
Decimal(t, acc) ==
    IF t = << >> THEN acc ELSE Decimal(Tail(t), 10 * acc + DigitVal(Head(t)))

\* The line is six whitespace-separated integers and nothing else.
SixIntegerShape(l) ==
    LET ts == Tokens(l) IN Len(ts) = 6 /\ \A i \in 1..6 : IsInteger(ts[i])

\* Tokens of the line that begin with a digit.
DigitTokens(l) == SelectSeq(Tokens(l), LAMBDA t : IsDigit(t[1]))

\* After n reads of the line l by a fresh process the metrics hold the five
\* trailing integers of l: the counters n times, the gauges once.
HoldsFields(l, n) ==
    LET ts == Tokens(l)
    IN  /\ inc_calls = 3 * n /\ set_calls = 2 * n
        /\ write_kib = n * Decimal(ts[2], 0)
        /\ read_kib = n * Decimal(ts[3], 0)
        /\ requests = n * Decimal(ts[4], 0)
        /\ queue_len = Decimal(ts[5], 0)
        /\ busy = Decimal(ts[6], 0)

\* C11 as claimed: every line of six whitespace-separated integers, with any
\* amount of whitespace (none included) before the first, is extracted as its
\* five trailing integers in order.
C11_AnyLeadingWhitespace ==
    \A l \in child_lines :
        (SixIntegerShape(l) /\ mpc \in {"stream", "wait"} /\ lines_read # << >>) =>
            HoldsFields(l, Len(lines_read))

\* C11 as amended: every line of six whitespace-separated integers that
\* begins with at least one whitespace character is extracted as its five
\* trailing integers in order, whatever whitespace separates the fields or
\* follows the last one.
C11_LeadingWhitespace ==
    \A l \in child_lines :
        (SixIntegerShape(l) /\ IsSpace(l[1])
           /\ mpc \in {"stream", "wait"} /\ lines_read # << >>) =>
            HoldsFields(l, Len(lines_read))

\* "\t 0 42  ..." : tab and space before the ignored integer, a space after
\* the last one; the line was read twice.
C11_Witness ==
    /\ child_lines =
          {<<"\t", " ">> \o JoinTokens(<<TokZero, TokFortyTwo, TokZero, TokFortyTwo,
                                         TokFortyTwo, TokZero>>, <<" ", "\t">>)
                         \o <<" ">>}
    /\ mpc = "wait"
    /\ Len(lines_read) = 2
    /\ write_kib = 84 /\ read_kib = 0 /\ requests = 84
    /\ queue_len = 42 /\ busy = 0

\* C12 as claimed: a line that is not six whitespace-separated integers is
\* not matched and changes no metric.
C12_UnshapedIgnored ==
    \A l \in child_lines :
        ~SixIntegerShape(l) =>
            MetricVals = ZeroVals /\ inc_calls = 0 /\ set_calls = 0

\* C12 as amended: a line with fewer than six whitespace-separated tokens
\* that begin with a digit (an empty line, header text, fewer than six
\* integers) is not matched and causes no inc_by and no set.
C12_FewerThanSixIgnored ==
    \A l \in child_lines :
        Len(DigitTokens(l)) < 6 =>
            MetricVals = ZeroVals /\ inc_calls = 0 /\ set_calls = 0

\* A line of five integers was read twice.
C12_Witness ==
    /\ child_lines = {<<" ">> \o JoinTokens([i \in 1..5 |-> TokFortyTwo], <<" ">>)}
    /\ mpc = "wait"
    /\ Len(lines_read) = 2
    /\ MetricVals = ZeroVals

\* Positions of run() at which a spawned child has not been waited for yet.
ChildLive == {"lock", "store_tag", "store_val", "unlock", "stream", "wait"}

\* C13: whenever a child is being streamed child_pid holds that child's
\* process identifier, and no line is read in any other state.
C13_StreamedChildTracked ==
    /\ [](mpc = "stream" => child.some /\ child_pid = child)
    /\ [][lines_total' # lines_total => child.some /\ child_pid = child]_vars

\* The second child is being streamed and a line of it was read.
C13_Witness ==
    /\ mpc = "stream" /\ error_count = 1 /\ lines_read # << >>
    /\ child_pid = Some(2)

\* C14: a child exists exactly from its spawn to the wait() of the same
\* iteration, which both ways of ending the stream lead to; the counter is
\* incremented and a child is spawned only when none exists, and none exists
\* when run() has returned.
C14_ReapedBeforeCount ==
    /\ [](child.some <=> mpc \in ChildLive)
    /\ [][/\ (mpc = "stream" /\ mpc' # mpc => mpc' = "wait" /\ child' = child)
          /\ (mpc = "wait" /\ mpc' # mpc => mpc' = "count" /\ child' = None)
          /\ (error_count' # error_count => child = None /\ child' = None)
          /\ (attempts' # attempts => child = None)]_vars

\* run() has returned the failure after a read error ended the last stream.
C14_Witness ==
    /\ mpc = "returned" /\ run_result = "giving_up"
    /\ end_kind = "read_error" /\ child = None /\ spawned

\* C15: start_monitoring is called again only from the sleep, the sleep is
\* entered only from an increment that left the counter within the ceiling,
\* and an increment that exceeds the ceiling returns at once: no sleep and no
\* further call follow.
C15_OneBackoff ==
    [][/\ (mpc' = "spawn" /\ mpc # "spawn" => mpc = "sleep")
       /\ (mpc = "sleep" /\ mpc' # mpc => mpc' = "spawn" /\ attempts' = attempts)
       /\ (mpc' = "sleep" /\ mpc # "sleep" =>
              mpc = "count" /\ error_count' = error_count + 1
                /\ error_count' <= restart_attemps)
       /\ (mpc = "count" /\ error_count + 1 > restart_attemps /\ mpc' # mpc =>
              mpc' = "returned" /\ run_result' = "giving_up")
       /\ (attempts' # attempts => mpc = "spawn" /\ attempts' = attempts + 1)
       /\ (mpc \in {"returned", "done"} =>
              attempts' = attempts /\ mpc' \in {"returned", "done"})]_vars

\* The third call of start_monitoring is about to be made, after two sleeps.
C15_Witness ==
    mpc = "spawn" /\ attempts = 2 /\ error_count = 2 /\ restart_attemps = 3

\* C16: a read error ends the stream at once (the next position is the
\* wait), the error itself and everything up to the next spawn leave the
\* metrics as the earlier lines made them, and no further line is read.
C16_ReadErrorStops ==
    /\ [](end_kind = "read_error" =>
             mpc \in {"wait", "count", "sleep", "returned", "done"})
    /\ [][/\ (end_kind' = "read_error" /\ end_kind # "read_error" =>
                 mpc = "stream" /\ mpc' = "wait" /\ UNCHANGED <<metrics, sinklog>>)
          /\ (end_kind = "read_error" => UNCHANGED <<metrics, lines_total>>)]_vars

\* A read error after one matched line; the crash was counted and the line's
\* values are still there.
C16_Witness ==
    /\ end_kind = "read_error" /\ mpc = "sleep" /\ error_count = 1
    /\ lines_total = 1 /\ write_kib = 1 /\ requests = 3 /\ busy = 1

\* C18: the metrics start at zero and every step that changes one of them
\* is the reading of a line that the pattern matches.
C18_OnlyMatchedLines ==
    [][MetricVals' # MetricVals =>
          /\ mpc = "stream" /\ mpc' = "stream"
          /\ lines_total' = lines_total + 1
          /\ Len(lines_read') = Len(lines_read) + 1
          /\ Captures(lines_read'[Len(lines_read')]).ok]_vars

\* The second child is being streamed and the values of the first child's
\* line are still there.
C18_Witness ==
    /\ mpc = "stream" /\ error_count = 1 /\ lines_read = << >>
    /\ lines_total = 1 /\ write_kib = 12 /\ queue_len = 4 /\ busy = 2

\* C20: the Mutex is held by at most one thread, by run() only around the
\* store and by the handler only from its lock() to its return or to the
\* exit, and a thread waiting in lock() gets the Mutex or the process ends.
C20_NoDeadlock ==
    /\ [](Cardinality(holders) <= 1)
    /\ []("main" \in holders <=> mpc \in {"store_tag", "store_val", "unlock"})
    /\ []("handler" \in holders <=> hpc \in {"read", "kill", "exit", "exited"})
    /\ ((mpc = "lock") ~> (mpc # "lock" \/ ~Running))
    /\ ((hpc = "lock") ~> (hpc # "lock" \/ ~Running))

\* run() waits in lock() while the handler holds the Mutex, and the handler
\* found no pid, so it will return and release it.
C20_Witness ==
    /\ mpc = "lock" /\ holders = {"handler"} /\ hpc = "read"
    /\ ~child_pid.some /\ Running

\* C19 as claimed: the increment of error_count never overflows (it neither
\* panics nor wraps around), so error_count stays within 0..restart_attemps+1.
C19_NoOverflow ==
    /\ run_result # "panic"
    /\ error_count >= 0
    /\ error_count - 1 <= restart_attemps

\* C17: when both threads keep running and every read of a child's output
\* returns, either an interrupt occurs or run() gives up, and it gives up
\* after exactly max(restart_attemps, 0) + 1 calls of start_monitoring, one
\* for a negative ceiling; while a child is streamed error_count does not
\* change and the only way on is the end of the stream.
C17_GivesUpAfterCeiling ==
    /\ <>(interrupts > 0
            \/ (run_result = "giving_up" /\ attempts = Max(restart_attemps, 0) + 1))
    /\ [](run_result # "none" =>
             run_result = "giving_up" /\ attempts = Max(restart_attemps, 0) + 1)
    /\ [][mpc = "stream" =>
             error_count' = error_count /\ mpc' \in {"stream", "wait"}]_vars

\* run() gave up after its first attempt under a negative ceiling, without
\* any interrupt; the attempt had spawned a child.
C17_Witness ==
    /\ mpc = "done" /\ run_result = "giving_up" /\ interrupts = 0
    /\ restart_attemps = 0 - 1 /\ attempts = 1 /\ spawned

====
